---- MODULE Spec2Model ----
(***************************************************************************)
(* TaskManager backend: the Task table (models/Task.js), its beforeUpdate  *)
(* hook, and the request handlers of routes/tasks.js, as a state machine.  *)
(* Every await of a handler is a point where another request may run, so   *)
(* a handler is one action per store access.                               *)
(***************************************************************************)
EXTENDS Integers, Sequences, FiniteSets, TLC

\* ------------------------------------------------------------------ bounds
MaxTasks == 1
MaxTime == 2
MaxRows == 3

\* --------------------------------------------------------------- constants
\* title.length > 100 is rejected
MaxTitleLen == 100
\* a DATE column holding NULL (times are 1..MaxTime)
NullTime == 0
\* a DECIMAL column holding NULL
NullNum == -1
\* a STRING/TEXT column holding NULL; strings are sequences of character codes
Null == << -1 >>

validStatuses ==
  {"todo", "in_progress", "pending_review", "approved", "rejected_revision", "cancelled"}

validPriorities == {"low", "medium", "high"}

Clients == {"c1", "c2"}

\* ----------------------------------------------------------------- strings
IsSpace(ch) == ch \in {9, 10, 13, 32}

RECURSIVE TrimStart(_)
TrimStart(s) ==
  IF s # << >> /\ IsSpace(Head(s)) THEN TrimStart(Tail(s)) ELSE s

RECURSIVE TrimEnd(_)
TrimEnd(s) ==
  IF s # << >> /\ IsSpace(s[Len(s)]) THEN TrimEnd(SubSeq(s, 1, Len(s) - 1)) ELSE s

\* String.prototype.trim
Trim(s) == TrimEnd(TrimStart(s))

\* JS truthiness of a string-or-null body value
Truthy(v) == v # Null /\ v # << >>

Has(body, k) == k \in DOMAIN body

\* -------------------------------------------------------------------- rows
\* an insert that stamps the derived timestamps from the given status
NewRow_Stamped(d, now) ==
  [ title |-> d.title, description |-> d.description, priority |-> d.priority,
    status |-> d.status, assignee |-> d.assignee, due_date |-> d.due_date,
    started_at |-> IF d.status = "in_progress" THEN now ELSE NullTime,
    completed_at |-> IF d.status = "approved" THEN now ELSE NullTime, tags |-> d.tags,
    estimated_hours |-> d.estimated_hours, actual_hours |-> NullNum,
    project_id |-> d.project_id, project_name |-> d.project_name,
    created_at |-> now, updated_at |-> now ]

\* the row Task.create inserts: taskData plus the columns it leaves out
NewRow(d, now) ==
  [ title |-> d.title, description |-> d.description, priority |-> d.priority,
    status |-> d.status, assignee |-> d.assignee, due_date |-> d.due_date,
    started_at |-> NullTime, completed_at |-> NullTime, tags |-> d.tags,
    estimated_hours |-> d.estimated_hours, actual_hours |-> NullNum,
    project_id |-> d.project_id, project_name |-> d.project_name,
    created_at |-> now, updated_at |-> now ]

NoRow == [ absent |-> TRUE ]

\* ---------------------------------------------------- variants of the hook
\* the hook without the !task.started_at test: every entry restarts the clock
beforeUpdate_Restart(task, previousStatus, now) ==
  LET currentStatus == task.status
      t1 == IF currentStatus = "in_progress" /\ previousStatus # "in_progress"
            THEN [task EXCEPT !.started_at = now] ELSE task
      t2 == IF currentStatus = "approved" /\ previousStatus # "approved"
            THEN [t1 EXCEPT !.completed_at = now] ELSE t1
      t3 == IF previousStatus = "approved" /\ currentStatus # "approved"
            THEN [t2 EXCEPT !.completed_at = NullTime] ELSE t2
      t4 == IF previousStatus = "in_progress" /\ currentStatus = "todo"
            THEN [t3 EXCEPT !.started_at = NullTime] ELSE t3
  IN t4

\* the hook clearing started_at on every return to todo
beforeUpdate_ClearOnTodo(task, previousStatus, now) ==
  LET currentStatus == task.status
      t1 == IF currentStatus = "in_progress" /\ previousStatus # "in_progress"
               /\ task.started_at = NullTime
            THEN [task EXCEPT !.started_at = now] ELSE task
      t2 == IF currentStatus = "approved" /\ previousStatus # "approved"
            THEN [t1 EXCEPT !.completed_at = now] ELSE t1
      t3 == IF previousStatus = "approved" /\ currentStatus # "approved"
            THEN [t2 EXCEPT !.completed_at = NullTime] ELSE t2
      t4 == IF currentStatus = "todo"
            THEN [t3 EXCEPT !.started_at = NullTime] ELSE t3
  IN t4

\* the hook stamping started_at on approval as well
beforeUpdate_StartOnApprove(task, previousStatus, now) ==
  LET currentStatus == task.status
      t1 == IF currentStatus \in {"in_progress", "approved"} /\ previousStatus # currentStatus
               /\ task.started_at = NullTime
            THEN [task EXCEPT !.started_at = now] ELSE task
      t2 == IF currentStatus = "approved" /\ previousStatus # "approved"
            THEN [t1 EXCEPT !.completed_at = now] ELSE t1
      t3 == IF previousStatus = "approved" /\ currentStatus # "approved"
            THEN [t2 EXCEPT !.completed_at = NullTime] ELSE t2
      t4 == IF previousStatus = "in_progress" /\ currentStatus = "todo"
            THEN [t3 EXCEPT !.started_at = NullTime] ELSE t3
  IN t4

\* the hook clearing completed_at only on the way back to todo
beforeUpdate_KeepCompleted(task, previousStatus, now) ==
  LET currentStatus == task.status
      t1 == IF currentStatus = "in_progress" /\ previousStatus # "in_progress"
               /\ task.started_at = NullTime
            THEN [task EXCEPT !.started_at = now] ELSE task
      t2 == IF currentStatus = "approved" /\ previousStatus # "approved"
            THEN [t1 EXCEPT !.completed_at = now] ELSE t1
      t3 == IF previousStatus = "approved" /\ currentStatus = "todo"
            THEN [t2 EXCEPT !.completed_at = NullTime] ELSE t2
      t4 == IF previousStatus = "in_progress" /\ currentStatus = "todo"
            THEN [t3 EXCEPT !.started_at = NullTime] ELSE t3
  IN t4

\* ------------------------------------------------------------ beforeUpdate
\* a hook that clears completed_at only when an approved task goes back to todo
beforeUpdate_UncompleteOnTodo(task, previousStatus, now) ==
  LET currentStatus == task.status
      t1 == IF currentStatus = "in_progress" /\ previousStatus # "in_progress"
               /\ task.started_at = NullTime
            THEN [task EXCEPT !.started_at = now] ELSE task
      t2 == IF currentStatus = "approved" /\ previousStatus # "approved"
            THEN [t1 EXCEPT !.completed_at = now] ELSE t1
      t3 == IF previousStatus = "approved" /\ currentStatus = "todo"
            THEN [t2 EXCEPT !.completed_at = NullTime] ELSE t2
      t4 == IF previousStatus = "in_progress" /\ currentStatus = "todo"
            THEN [t3 EXCEPT !.started_at = NullTime] ELSE t3
  IN t4

\* the hook as a function of the instance after set(), the status the
\* instance was loaded with, and the clock
beforeUpdate(task, previousStatus, now) ==
  LET currentStatus == task.status
      t1 == IF currentStatus = "in_progress" /\ previousStatus # "in_progress"
               /\ task.started_at = NullTime
            THEN [task EXCEPT !.started_at = now] ELSE task
      t2 == IF currentStatus = "approved" /\ previousStatus # "approved"
            THEN [t1 EXCEPT !.completed_at = now] ELSE t1
      t3 == IF previousStatus = "approved" /\ currentStatus # "approved"
            THEN [t2 EXCEPT !.completed_at = NullTime] ELSE t2
      t4 == IF previousStatus = "in_progress" /\ currentStatus = "todo"
            THEN [t3 EXCEPT !.started_at = NullTime] ELSE t3
  IN t4

\* a save whose UPDATE names only the columns that differ from the loaded row
SaveInstance_ChangedOnly(inst, values, now) ==
  LET afterSet == [k \in DOMAIN inst |-> IF k \in DOMAIN values THEN values[k] ELSE inst[k]]
      given == DOMAIN values
      stamped == IF given # {} THEN [afterSet EXCEPT !.updated_at = now] ELSE afterSet
      hooked == beforeUpdate(stamped, inst.status, now)
      hookChanged == {k \in DOMAIN inst : hooked[k] # stamped[k]}
      changed == {k \in given : afterSet[k] # inst[k]} \cup hookChanged
  IN [ vals |-> hooked,
       fields |-> IF changed = {} THEN {} ELSE changed \cup {"updated_at"} ]

\* Instance.update(values): set(), updatedAt, the hook, and the column list of
\* the UPDATE statement (the given keys, updatedAt, what the hook changed);
\* no statement is sent when nothing changed
SaveInstance(inst, values, now) ==
  LET afterSet == [k \in DOMAIN inst |-> IF k \in DOMAIN values THEN values[k] ELSE inst[k]]
      given == DOMAIN values
      stamped == IF given # {} THEN [afterSet EXCEPT !.updated_at = now] ELSE afterSet
      hooked == beforeUpdate(stamped, inst.status, now)
      hookChanged == {k \in DOMAIN inst : hooked[k] # stamped[k]}
      changed == {k \in given : afterSet[k] # inst[k]} \cup hookChanged
      fields == given \cup (IF given # {} THEN {"updated_at"} ELSE {}) \cup hookChanged
  IN [ vals |-> hooked, fields |-> IF changed = {} THEN {} ELSE fields ]

\* an UPDATE that leaves the derived timestamps to a later statement
ApplyUpdate_WithoutDerived(row, sv) ==
  [k \in DOMAIN row |->
     IF k \in sv.fields \ {"started_at", "completed_at"} THEN sv.vals[k] ELSE row[k]]

\* UPDATE tasks SET <fields> WHERE id = ?
ApplyUpdate(row, sv) ==
  [k \in DOMAIN row |-> IF k \in sv.fields THEN sv.vals[k] ELSE row[k]]

\* ------------------------------------------------------------------- state
VARIABLES
  tasks,      \* the tasks table: id -> row, for the ids that have a row
  nextId,     \* the AUTOINCREMENT counter
  clock,      \* what new Date() returns
  reqs,       \* the request each client has in flight
  resp,       \* the response sent last, until the next request is taken up
  ever,       \* history: the ids whose row has had status in_progress
  env         \* process.env.NODE_ENV, fixed when the process starts

vars == << tasks, nextId, clock, reqs, resp, ever, env >>

EmptyBody == [k \in {} |-> 0]

\* NODE_ENV not set
Unset == ""

\* the body of a handler's catch block: error: error.message
HandlerError == [ error |-> "error.message" ]

\* the body the error middleware sends
MiddlewareError ==
  [ error |-> IF env = "development" THEN "error.message" ELSE "redacted" ]

\* getDuration divides by 1000 * 60 * 60 * 24 * 100 milliseconds, a hundred
\* days; times are counted here in hours, of which a day has
DayHours == 24

\* one tick of the clock (new Date()) is twelve hours
TickHours == DayHours \div 2

\* Math.round(n / d): the nearest integer, a half rounded up
Round(n, d) == (2 * n + d) \div (2 * d)

\* getDuration as written, in hundredths of a day: the difference divided by a
\* hundred days, rounded to an integer, then divided by 100
getDuration(task) ==
  IF task.started_at # NullTime /\ task.completed_at # NullTime
  THEN Round((task.completed_at - task.started_at) * TickHours, DayHours * 100)
  ELSE NullNum

\* the methods a Task instance has beyond the built-in ones: the define()
\* option instanceMethods is not read by a Sequelize that has findByPk and Op
InstanceMethods == {}

\* duration: task.getDuration ? task.getDuration() : null
Duration(task) ==
  IF "getDuration" \in InstanceMethods THEN getDuration(task) ELSE NullNum

\* the duration of each task a response carries, in the order of the response
Durations(kind, code, data) ==
  IF code = 200 /\ kind \in {"get", "put"} THEN << Duration(data) >>
  ELSE IF code = 200 /\ kind = "list"
       THEN [k \in DOMAIN data.data |-> Duration(data.data[k].row)]
  ELSE << >>

Idle ==
  [ kind |-> "none", pc |-> "idle", id |-> 0, body |-> EmptyBody, inst |-> NoRow,
    usedPrev |-> "", storedPrev |-> "", wrote |-> FALSE, counts |-> << >> ]

NoResponse ==
  [ client |-> "", kind |-> "none", id |-> 0, body |-> EmptyBody, code |-> 0,
    data |-> NoRow, durations |-> << >> ]

\* a client may send a request when it has none in flight
Startable(c) == reqs[c].pc = "idle"

\* res.status(code).json(data): the handler of client c is over
Respond(c, kind, id, body, code, data) ==
  /\ resp' = [NoResponse EXCEPT !.client = c, !.kind = kind, !.id = id, !.body = body,
                !.code = code, !.data = data,
                !.durations = Durations(kind, code, data)]
  /\ reqs' = [reqs EXCEPT ![c] = Idle]
  /\ UNCHANGED env

Ids == 1..MaxTasks

\* ------------------------------------------------------------ request bodies
TitleA == << 97 >>
TitleB == << 32, 98, 32 >>
TitleBlank == << 32 >>
TitleLong == [i \in 1..(MaxTitleLen + 1) |-> 97]

\* a title of exactly the longest length allowed
TitleMax == [i \in 1..MaxTitleLen |-> 98]

\* the longest title allowed, followed by a blank
TitlePadded == TitleMax \o << 32 >>

\* titles at and around the limits of the title checks
TitleBodies ==
  {[title |-> t] :
     t \in {TitleA, TitleB, TitleBlank, TitleLong, TitleMax, TitlePadded, << >>, Null}}
  \cup {EmptyBody}

\* the bodies of the status lifecycle: any status, the default, a rejected value
CreateBodies ==
  {[title |-> TitleA], [title |-> TitleA, status |-> "closed"]}
  \cup {[title |-> TitleA, status |-> s] : s \in validStatuses}

\* create bodies over the status and priority given or left out
CreateFieldBodies ==
  {[title |-> t] : t \in {TitleA, TitleBlank, TitleLong}}
  \cup {[title |-> TitleA, status |-> s] : s \in validStatuses \cup {"closed"}}
  \cup {[title |-> TitleA, priority |-> p] : p \in validPriorities \cup {"urgent"}}
  \cup {[title |-> TitleB, status |-> s, priority |-> p] :
          s \in validStatuses, p \in {"low", "high"}}

\* a create body giving every field the handler reads, and one giving actual_hours
RoundTripBodies ==
  { [ title |-> TitleA, description |-> << 100 >>, priority |-> "high",
      status |-> "pending_review", assignee |-> << 98 >>, due_date |-> 1,
      tags |-> << 120 >>, estimated_hours |-> 3, project_id |-> << 112 >>,
      project_name |-> << 80 >> ],
    [ title |-> TitleA, actual_hours |-> 5 ] }

StatusBodies == {[status |-> s] : s \in validStatuses}

\* the statuses the hook tells apart, and one it does not
RaceBodies == {[status |-> s] : s \in {"todo", "in_progress", "approved", "cancelled"}}

PutBodies == StatusBodies \cup {EmptyBody, [status |-> "closed"]}

PatchBodies == StatusBodies \cup {EmptyBody, [status |-> "closed"]}

\* ------------------------------------------------------------------ POST /
\* taskData of router.post('/')
TaskData(body, priority, status) ==
  LET str(k) == IF Has(body, k) /\ Truthy(body[k]) THEN Trim(body[k]) ELSE Null
      num(k) == IF Has(body, k) /\ body[k] # NullNum /\ body[k] # 0 THEN body[k] ELSE NullNum
  IN [ title |-> Trim(body.title), description |-> str("description"),
       priority |-> priority, status |-> status, assignee |-> str("assignee"),
       due_date |-> IF Has(body, "due_date") THEN body.due_date ELSE NullTime,
       tags |-> str("tags"), estimated_hours |-> num("estimated_hours"),
       project_id |-> str("project_id"), project_name |-> str("project_name") ]

Insert(row) ==
  /\ tasks' = [i \in DOMAIN tasks \cup {nextId} |-> IF i = nextId THEN row ELSE tasks[i]]
  /\ nextId' = nextId + 1
  /\ ever' = IF row.status = "in_progress" THEN ever \cup {nextId} ELSE ever

Create(c, body) ==
  /\ Startable(c)
  /\ LET priority == IF Has(body, "priority") THEN body.priority ELSE "medium"
         status == IF Has(body, "status") THEN body.status ELSE "todo"
     IN IF ~Has(body, "title") \/ ~Truthy(body.title) \/ Len(Trim(body.title)) = 0
           \/ Len(body.title) > MaxTitleLen
           \/ priority \notin validPriorities \/ status \notin validStatuses
        THEN /\ Respond(c, "create", 0, body, 400, NoRow)
             /\ UNCHANGED << tasks, nextId, ever >>
        ELSE /\ nextId <= MaxTasks
             /\ Insert(NewRow(TaskData(body, priority, status), clock))
             /\ Respond(c, "create", nextId, body, 201,
                        NewRow(TaskData(body, priority, status), clock))
  /\ UNCHANGED clock

\* --------------------------------------------------------------- PUT /:id
\* body checks that leave out the test of the priority
PutInvalid_AnyPriority(body) ==
  \/ Has(body, "title") /\ (~Truthy(body.title) \/ Len(Trim(body.title)) = 0
                            \/ Len(body.title) > MaxTitleLen)
  \/ Has(body, "status") /\ body.status \notin validStatuses

\* body checks that leave out the test of the trimmed title
PutInvalid_Untrimmed(body) ==
  \/ Has(body, "title") /\ (~Truthy(body.title) \/ Len(body.title) > MaxTitleLen)
  \/ Has(body, "priority") /\ body.priority \notin validPriorities
  \/ Has(body, "status") /\ body.status \notin validStatuses

\* the body checks of router.put('/:id'), made after the task was found
PutInvalid(body) ==
  \/ Has(body, "title") /\ (~Truthy(body.title) \/ Len(Trim(body.title)) = 0
                            \/ Len(body.title) > MaxTitleLen)
  \/ Has(body, "priority") /\ body.priority \notin validPriorities
  \/ Has(body, "status") /\ body.status \notin validStatuses

\* the fields router.put('/:id') takes from req.body
UpdatableFields ==
  { "title", "description", "priority", "status", "assignee", "due_date", "tags",
    "estimated_hours", "actual_hours", "project_id", "project_name" }

\* an update that hands the whole request body to task.update
UpdateData_WholeBody(body) ==
  [k \in DOMAIN body |->
     CASE k = "title" -> Trim(body[k])
       [] k \in {"priority", "status"} -> body[k]
       [] k \in {"due_date", "started_at", "completed_at"} -> body[k]
       [] k \in {"estimated_hours", "actual_hours"} ->
            IF body[k] # NullNum /\ body[k] # 0 THEN body[k] ELSE NullNum
       [] OTHER -> IF Truthy(body[k]) THEN Trim(body[k]) ELSE Null]

\* an update that fills in the priority the way a create does
UpdateData_WithDefaults(body) ==
  [k \in (DOMAIN body \cap UpdatableFields) \cup {"priority"} |->
     IF k \in DOMAIN body THEN UpdateData_WholeBody(body)[k] ELSE "medium"]

\* updateData of router.put('/:id'): the keys the body has, normalised
UpdateData(body) ==
  [k \in DOMAIN body \cap UpdatableFields |->
     CASE k = "title" -> Trim(body[k])
       [] k \in {"priority", "status"} -> body[k]
       [] k = "due_date" -> body[k]
       [] k \in {"estimated_hours", "actual_hours"} ->
            IF body[k] # NullNum /\ body[k] # 0 THEN body[k] ELSE NullNum
       [] OTHER -> IF Truthy(body[k]) THEN Trim(body[k]) ELSE Null]

\* findByPk returned a row: the handler holds an instance of it
Found(c, kind, id, body) ==
  /\ reqs' = [reqs EXCEPT ![c] =
       [Idle EXCEPT !.kind = kind, !.pc = "found", !.id = id, !.body = body,
                    !.inst = tasks[id]]]
  /\ resp' = NoResponse
  /\ UNCHANGED env

\* a lookup that saves the found task before the body is checked
PutFind_SaveBeforeChecks(c, id, body) ==
  /\ Startable(c)
  /\ IF id \notin DOMAIN tasks
     THEN Respond(c, "put", id, body, 404, NoRow) /\ UNCHANGED tasks
     ELSE IF PutInvalid(body)
     THEN /\ Respond(c, "put", id, body, 400, NoRow)
          /\ tasks' = [tasks EXCEPT ![id].updated_at = clock]
     ELSE Found(c, "put", id, body) /\ UNCHANGED tasks
  /\ UNCHANGED << nextId, clock, ever >>

\* findByPk, then the checks of the body
PutFind(c, id, body) ==
  /\ Startable(c)
  /\ IF id \notin DOMAIN tasks THEN Respond(c, "put", id, body, 404, NoRow)
     ELSE IF PutInvalid(body) THEN Respond(c, "put", id, body, 400, NoRow)
     ELSE Found(c, "put", id, body)
  /\ UNCHANGED << tasks, nextId, clock, ever >>

\* an update that writes the instance back whether or not its row is there
UpdateStep_Upsert(c, kind, values) ==
  /\ reqs[c].kind = kind
  /\ reqs[c].pc = "found"
  /\ LET r == reqs[c]
         sv == SaveInstance(r.inst, values, clock)
         hit == sv.fields # {}
     IN /\ tasks' = IF hit
                    THEN [i \in DOMAIN tasks \cup {r.id} |->
                            IF i # r.id THEN tasks[i]
                            ELSE IF i \in DOMAIN tasks THEN ApplyUpdate(tasks[i], sv)
                            ELSE sv.vals]
                    ELSE tasks
        /\ ever' = IF hit /\ tasks'[r.id].status = "in_progress" THEN ever \cup {r.id} ELSE ever
        /\ reqs' = [reqs EXCEPT ![c] =
             [r EXCEPT !.pc = "written", !.inst = NoRow,
                       !.usedPrev = r.inst.status,
                       !.storedPrev = IF r.id \in DOMAIN tasks THEN tasks[r.id].status ELSE "",
                       !.wrote = hit]]
  /\ UNCHANGED << nextId, clock, resp, env >>

\* await task.update(values): the hook runs on the instance the handler
\* holds, then the UPDATE statement changes the row if it is still there
UpdateStep(c, kind, values) ==
  /\ reqs[c].kind = kind
  /\ reqs[c].pc = "found"
  /\ LET r == reqs[c]
         sv == SaveInstance(r.inst, values, clock)
         hit == sv.fields # {} /\ r.id \in DOMAIN tasks
     IN /\ tasks' = IF hit THEN [tasks EXCEPT ![r.id] = ApplyUpdate(@, sv)] ELSE tasks
        /\ ever' = IF hit /\ tasks'[r.id].status = "in_progress" THEN ever \cup {r.id} ELSE ever
        /\ reqs' = [reqs EXCEPT ![c] =
             [r EXCEPT !.pc = "written", !.inst = NoRow,
                       !.usedPrev = r.inst.status,
                       !.storedPrev = IF r.id \in DOMAIN tasks THEN tasks[r.id].status ELSE "",
                       !.wrote = hit]]
  /\ UNCHANGED << nextId, clock, resp, env >>

PutUpdate(c) == UpdateStep(c, "put", UpdateData(reqs[c].body))

\* await task.reload(), then the response; reload throws when the row is gone
PutReload(c) ==
  /\ reqs[c].kind = "put"
  /\ reqs[c].pc = "written"
  /\ IF reqs[c].id \in DOMAIN tasks
     THEN Respond(c, "put", reqs[c].id, reqs[c].body, 200, tasks[reqs[c].id])
     ELSE Respond(c, "put", reqs[c].id, reqs[c].body, 500, HandlerError)
  /\ UNCHANGED << tasks, nextId, clock, ever >>

\* ------------------------------------------------------- PATCH /:id/status
\* a patch-status that looks the task up before it checks the status
PatchFind_LookupFirst(c, id, body) ==
  /\ Startable(c)
  /\ IF id \notin DOMAIN tasks THEN Respond(c, "patch", id, body, 404, NoRow)
     ELSE IF ~Has(body, "status") \/ body.status = "" THEN Respond(c, "patch", id, body, 400, NoRow)
     ELSE IF body.status \notin validStatuses THEN Respond(c, "patch", id, body, 400, NoRow)
     ELSE Found(c, "patch", id, body)
  /\ UNCHANGED << tasks, nextId, clock, ever >>

\* the checks of the status, then findByPk
PatchFind(c, id, body) ==
  /\ Startable(c)
  /\ IF ~Has(body, "status") \/ body.status = "" THEN Respond(c, "patch", id, body, 400, NoRow)
     ELSE IF body.status \notin validStatuses THEN Respond(c, "patch", id, body, 400, NoRow)
     ELSE IF id \notin DOMAIN tasks THEN Respond(c, "patch", id, body, 404, NoRow)
     ELSE Found(c, "patch", id, body)
  /\ UNCHANGED << tasks, nextId, clock, ever >>

PatchUpdate(c) == UpdateStep(c, "patch", [status |-> reqs[c].body.status])

\* the response carries id, status, started_at and completed_at of the reloaded row
PatchReload(c) ==
  /\ reqs[c].kind = "patch"
  /\ reqs[c].pc = "written"
  /\ IF reqs[c].id \in DOMAIN tasks
     THEN Respond(c, "patch", reqs[c].id, reqs[c].body, 200,
                  [ status |-> tasks[reqs[c].id].status,
                    started_at |-> tasks[reqs[c].id].started_at,
                    completed_at |-> tasks[reqs[c].id].completed_at ])
     ELSE Respond(c, "patch", reqs[c].id, reqs[c].body, 500, HandlerError)
  /\ UNCHANGED << tasks, nextId, clock, ever >>

\* --------------------------------------------------------------- GET /:id
\* findByPk, then the row as it is stored, or 404
GetById(c, id) ==
  /\ Startable(c)
  /\ IF id \in DOMAIN tasks THEN Respond(c, "get", id, EmptyBody, 200, tasks[id])
     ELSE Respond(c, "get", id, EmptyBody, 404, NoRow)
  /\ UNCHANGED << tasks, nextId, clock, ever >>

\* ------------------------------------------------------------ DELETE /:id
\* a delete without the test for a missing task: destroy of null throws
DeleteFind_Unchecked(c, id) ==
  /\ Startable(c)
  /\ IF id \notin DOMAIN tasks THEN Respond(c, "delete", id, EmptyBody, 500, HandlerError)
     ELSE Found(c, "delete", id, EmptyBody)
  /\ UNCHANGED << tasks, nextId, clock, ever >>

DeleteFind(c, id) ==
  /\ Startable(c)
  /\ IF id \notin DOMAIN tasks THEN Respond(c, "delete", id, EmptyBody, 404, NoRow)
     ELSE Found(c, "delete", id, EmptyBody)
  /\ UNCHANGED << tasks, nextId, clock, ever >>

\* await task.destroy(): DELETE FROM tasks WHERE id = ?, then the response
DeleteDestroy(c) ==
  /\ reqs[c].kind = "delete"
  /\ reqs[c].pc = "found"
  /\ tasks' = [i \in DOMAIN tasks \ {reqs[c].id} |-> tasks[i]]
  /\ Respond(c, "delete", reqs[c].id, EmptyBody, 200, NoRow)
  /\ UNCHANGED << nextId, clock, ever >>

\* ------------------------------------------------------------------- clock
Tick ==
  /\ clock < MaxTime
  /\ clock' = clock + 1
  /\ UNCHANGED << tasks, nextId, reqs, resp, ever, env >>

\* ------------------------------------------------------------------ GET /
\* parseInt of a string of decimal digits
RECURSIVE ParseInt(_)
ParseInt(s) ==
  IF s = << >> THEN 0 ELSE 10 * ParseInt(SubSeq(s, 1, Len(s) - 1)) + (s[Len(s)] - 48)

\* a query value that is a single value or a list: Array.isArray(v) ? v : [v]
AsArray(v) == IF Has(v, "many") THEN v.many ELSE << v.one >>

\* if (status): a list is truthy, a single value unless it is the empty string
Given(query, k) ==
  Has(query, k)
    /\ (Has(query[k], "many") \/ query[k].one # (IF k = "project_id" THEN << >> ELSE ""))

Range(seq) == {seq[i] : i \in DOMAIN seq}

\* SQLite folds the case of ASCII letters in LIKE
Fold(ch) == IF ch \in 65..90 THEN ch + 32 ELSE ch

\* SQLite's LIKE: % matches any run of characters, _ any one character
RECURSIVE Like(_, _)
Like(pattern, str) ==
  IF pattern = << >> THEN str = << >>
  ELSE IF Head(pattern) = 37
    THEN Like(Tail(pattern), str) \/ (str # << >> /\ Like(pattern, Tail(str)))
  ELSE /\ str # << >>
       /\ (Head(pattern) = 95 \/ Fold(Head(pattern)) = Fold(Head(str)))
       /\ Like(Tail(pattern), Tail(str))

\* column LIKE '%value%'; NULL LIKE anything is not true
LikeContains(column, value) ==
  column # Null /\ Like(<< 37 >> \o value \o << 37 >>, column)

\* the where object of router.get('/') applied to a row
Where(query, row) ==
  /\ Given(query, "status") => row.status \in Range(AsArray(query.status))
  /\ Given(query, "priority") => row.priority \in Range(AsArray(query.priority))
  /\ Given(query, "project_id") => row.project_id \in Range(AsArray(query.project_id))
  /\ (Has(query, "assignee") /\ query.assignee # << >>) =>
       LikeContains(row.assignee, query.assignee)
  /\ (Has(query, "search") /\ query.search # << >>) =>
       \/ LikeContains(row.title, query.search)
       \/ LikeContains(row.description, query.search)
       \/ LikeContains(row.tags, query.search)

SortColumns == {"id", "created_at", "updated_at"}

\* ORDER BY sortBy sortOrder over the matching ids; rows with equal keys come
\* in the order of the table scan, by id
RECURSIVE OrderBy(_, _, _, _)
OrderBy(store, ids, sortBy, sortOrder) ==
  IF ids = {} THEN << >>
  ELSE LET key(i) == IF sortBy = "id" THEN i ELSE store[i][sortBy]
           before(i, j) ==
             IF key(i) # key(j)
             THEN IF sortOrder = "DESC" THEN key(i) > key(j) ELSE key(i) < key(j)
             ELSE i < j
           first == CHOOSE i \in ids : \A j \in ids \ {i} : before(i, j)
       IN << first >> \o OrderBy(store, ids \ {first}, sortBy, sortOrder)

\* LIMIT limit OFFSET offset
Slice(seq, offset, limit) ==
  SubSeq(seq, offset + 1, IF offset + limit < Len(seq) THEN offset + limit ELSE Len(seq))

\* a page count that drops the last, partly filled page
Ceil_Floor(count, limitNum) == count \div limitNum

\* Math.ceil(count / limitNum)
Ceil(count, limitNum) == (count + limitNum - 1) \div limitNum

\* an offset that counts pages from 0
Offset_ZeroBased(page, limit) == page * limit

\* (parseInt(page) - 1) * parseInt(limit)
Offset(page, limit) == (page - 1) * limit

\* the response of router.get('/') over a store
ListResult(store, query) ==
  LET page == IF Has(query, "page") THEN query.page ELSE << 49 >>
      limit == IF Has(query, "limit") THEN query.limit ELSE << 49, 48 >>
      sortBy == IF Has(query, "sortBy") THEN query.sortBy ELSE "created_at"
      sortOrder == IF Has(query, "sortOrder") THEN query.sortOrder ELSE "DESC"
      offset == Offset(ParseInt(page), ParseInt(limit))
      limitNum == ParseInt(limit)
      matching == {i \in DOMAIN store : Where(query, store[i])}
      rows == Slice(OrderBy(store, matching, sortBy, sortOrder), offset, limitNum)
      count == Cardinality(matching)
  IN [ data |-> [k \in DOMAIN rows |-> [id |-> rows[k], row |-> store[rows[k]]]],
       pagination |->
         [ total |-> count, page |-> ParseInt(page), limit |-> limitNum,
           totalPages |-> Ceil(count, limitNum),
           hasNext |-> ParseInt(page) < Ceil(count, limitNum),
           hasPrev |-> ParseInt(page) > 1 ] ]

\* findAndCountAll fails on a column the table does not have
List(c, query) ==
  /\ Startable(c)
  /\ IF Has(query, "sortBy") /\ query.sortBy \notin SortColumns
     THEN Respond(c, "list", 0, query, 500, HandlerError)
     ELSE Respond(c, "list", 0, query, 200, ListResult(tasks, query))
  /\ UNCHANGED << tasks, nextId, clock, ever >>

\* ------------------------------------------- GET /projects, GET /api/projects
\* the order of two strings under SQLite's BINARY collation
RECURSIVE StrLess(_, _)
StrLess(a, b) ==
  IF b = << >> THEN FALSE
  ELSE IF a = << >> THEN TRUE
  ELSE IF Head(a) # Head(b) THEN Head(a) < Head(b)
  ELSE StrLess(Tail(a), Tail(b))

\* the entries of a set of {id, name} records, ORDER BY name (then id)
RECURSIVE SortByName(_)
SortByName(entries) ==
  IF entries = {} THEN << >>
  ELSE LET first == CHOOSE e \in entries : \A f \in entries \ {e} :
                      \/ StrLess(e.name, f.name)
                      \/ e.name = f.name /\ StrLess(e.id, f.id)
       IN << first >> \o SortByName(entries \ {first})

\* router.get('/projects'): the distinct (project_id, project_name) pairs of
\* the tasks that have both
ProjectsRouter(store) ==
  SortByName({ [id |-> store[i].project_id, name |-> store[i].project_name] :
               i \in {j \in DOMAIN store : store[j].project_id # Null
                                            /\ store[j].project_name # Null} })

\* name.replace(/\s+/g, '_').toLowerCase()
RECURSIVE Slugify(_)
Slugify(name) ==
  IF name = << >> THEN << >>
  ELSE IF IsSpace(Head(name))
    THEN << 95 >> \o Slugify(TrimStart(name))
  ELSE << Fold(Head(name)) >> \o Slugify(Tail(name))

\* 'auto_'
AutoPrefix == << 97, 117, 116, 111, 95 >>

\* MAX(project_id) over the rows of one project_name; NULL when all are NULL
MaxProjectId(store, name) ==
  LET ids == { store[i].project_id :
               i \in {j \in DOMAIN store : store[j].project_name = name
                                            /\ store[j].project_id # Null} }
  IN IF ids = {} THEN Null
     ELSE CHOOSE m \in ids : \A o \in ids \ {m} : StrLess(o, m)

\* app.get('/api/projects'): one entry per project_name, its id the greatest
\* project_id of the name or, without one, 'auto_' and the slug of the name
ProjectsApp(store) ==
  SortByName({ [ id |-> IF MaxProjectId(store, name) # Null
                        THEN MaxProjectId(store, name)
                        ELSE AutoPrefix \o Slugify(name),
                 name |-> name ] :
               name \in { store[i].project_name : i \in DOMAIN store } \ {Null} })

GetProjects(c) ==
  /\ Startable(c)
  /\ Respond(c, "projects", 0, EmptyBody, 200, ProjectsRouter(tasks))
  /\ UNCHANGED << tasks, nextId, clock, ever >>

GetApiProjects(c) ==
  /\ Startable(c)
  /\ Respond(c, "api_projects", 0, EmptyBody, 200, ProjectsApp(tasks))
  /\ UNCHANGED << tasks, nextId, clock, ever >>

\* ----------------------------------------------------------- GET /api/stats
\* Task.getStatusOptions() and Task.getPriorityOptions(), the values in order
StatusOptions ==
  << "todo", "in_progress", "pending_review", "approved", "rejected_revision", "cancelled" >>

PriorityOptions == << "low", "medium", "high" >>

\* the where clauses of the counts the handler awaits, in order: one per
\* status, one per priority, all tasks, the approved, the in_progress
StatsQueries ==
  [k \in 1..Len(StatusOptions) |-> [column |-> "status", value |-> StatusOptions[k]]]
  \o [k \in 1..Len(PriorityOptions) |-> [column |-> "priority", value |-> PriorityOptions[k]]]
  \o << [column |-> "", value |-> ""],
        [column |-> "status", value |-> "approved"],
        [column |-> "status", value |-> "in_progress"] >>

\* Task.count({ where }) over the table as it is when the statement runs
Count(store, where) ==
  Cardinality({i \in DOMAIN store : where.column = "" \/ store[i][where.column] = where.value})

\* totalTasks > 0 ? Math.round((completedTasks / totalTasks) * 100) : 0
CompletionRate(completedTasks, totalTasks) ==
  IF totalTasks > 0 THEN Round(completedTasks * 100, totalTasks) ELSE 0

\* the data of the response, from the counts in the order they were awaited
StatsData(counts) ==
  LET ns == Len(StatusOptions)
      np == Len(PriorityOptions)
  IN [ total |-> counts[ns + np + 1],
       completed |-> counts[ns + np + 2],
       inProgress |-> counts[ns + np + 3],
       completionRate |-> CompletionRate(counts[ns + np + 2], counts[ns + np + 1]),
       statusStats |-> [s \in Range(StatusOptions) |->
                         counts[CHOOSE k \in 1..ns : StatusOptions[k] = s]],
       priorityStats |-> [q \in Range(PriorityOptions) |->
                           counts[ns + CHOOSE k \in 1..np : PriorityOptions[k] = q]] ]

\* the request arrives and the first count runs
StatsStart(c) ==
  /\ Startable(c)
  /\ reqs' = [reqs EXCEPT ![c] =
       [Idle EXCEPT !.kind = "stats", !.pc = "counting",
                    !.counts = << Count(tasks, StatsQueries[1]) >>]]
  /\ resp' = NoResponse
  /\ UNCHANGED << tasks, nextId, clock, ever, env >>

\* the next count runs; after the last one the response is sent
StatsCount(c) ==
  /\ reqs[c].kind = "stats"
  /\ reqs[c].pc = "counting"
  /\ LET counts == Append(reqs[c].counts, Count(tasks, StatsQueries[Len(reqs[c].counts) + 1]))
     IN IF Len(counts) < Len(StatsQueries)
        THEN /\ reqs' = [reqs EXCEPT ![c].counts = counts]
             /\ UNCHANGED << resp, env >>
        ELSE Respond(c, "stats", 0, EmptyBody, 200, StatsData(counts))
  /\ UNCHANGED << tasks, nextId, clock, ever >>

\* ---------------------------------------------------------- store failures
\* the handlers that reach the store
StoreHandlers ==
  { "list", "get", "create", "put", "patch", "delete", "projects", "api_projects",
    "stats", "health" }

\* the first store access of a handler throws: its catch block answers
StoreFails(c, kind) ==
  /\ Startable(c)
  /\ Respond(c, kind, 0, EmptyBody, 500, HandlerError)
  /\ UNCHANGED << tasks, nextId, clock, ever >>

\* a later store access of an update, patch-status or delete throws
WriteFails(c) ==
  /\ reqs[c].pc \in {"found", "written"}
  /\ Respond(c, reqs[c].kind, reqs[c].id, reqs[c].body, 500, HandlerError)
  /\ UNCHANGED << tasks, nextId, clock, ever >>

\* express.json() rejects the request body: the error reaches the error
\* middleware, no handler runs
BodyParseFails(c) ==
  /\ Startable(c)
  /\ Respond(c, "middleware", 0, EmptyBody, 500, MiddlewareError)
  /\ UNCHANGED << tasks, nextId, clock, ever >>

\* ----------------------------------------------------------- specifications
Init ==
  /\ tasks = [i \in {} |-> NoRow]
  /\ nextId = 1
  /\ clock = 1
  /\ reqs = [c \in Clients |-> Idle]
  /\ resp = NoResponse
  /\ env = Unset
  /\ ever = {}

Creates(c, createBodies) == \E body \in createBodies : Create(c, body)

Updates(c, putBodies, patchBodies) ==
  \/ \E id \in Ids, body \in putBodies : PutFind(c, id, body)
  \/ PutUpdate(c)
  \/ PutReload(c)
  \/ \E id \in Ids, body \in patchBodies : PatchFind(c, id, body)
  \/ PatchUpdate(c)
  \/ PatchReload(c)

Deletes(c) ==
  \/ \E id \in Ids : DeleteFind(c, id)
  \/ DeleteDestroy(c)

\* requests handled one at a time: a single client, one request in flight
NextSeq ==
  \/ Creates("c1", CreateBodies)
  \/ Updates("c1", PutBodies, PatchBodies)
  \/ Deletes("c1")
  \/ Tick

SpecSeq == Init /\ [][NextSeq]_vars

\* creates of every status and priority, and deletes, one at a time
NextCreate ==
  \/ Creates("c1", CreateFieldBodies \cup RoundTripBodies)
  \/ \E id \in Ids : GetById("c1", id)
  \/ Deletes("c1")
  \/ Tick

SpecCreate == Init /\ [][NextCreate]_vars

\* creates and updates over the titles, one at a time
NextTitle ==
  \/ Creates("c1", TitleBodies)
  \/ Updates("c1", TitleBodies, {[status |-> "in_progress"]})
  \/ Tick

SpecTitle == Init /\ [][NextTitle]_vars

\* bodies with priorities and statuses inside and outside the enumerations
EnumCreateBodies ==
  { [title |-> TitleA], [title |-> TitleA, status |-> "closed"],
    [title |-> TitleA, priority |-> "urgent"],
    [title |-> TitleA, priority |-> "low", status |-> "approved"],
    [title |-> TitleA, priority |-> "urgent", status |-> "approved"] }

EnumPutBodies ==
  { [priority |-> "urgent"], [status |-> "closed"], [priority |-> "high"],
    [status |-> "in_progress"], [priority |-> "high", status |-> "closed"],
    [priority |-> "", status |-> "todo"] }

EnumPatchBodies == { [status |-> "closed"], [status |-> "approved"], [status |-> ""], EmptyBody }

NextEnum ==
  \/ Creates("c1", EnumCreateBodies)
  \/ Updates("c1", EnumPutBodies, EnumPatchBodies)
  \/ Deletes("c1")
  \/ Tick

SpecEnum == Init /\ [][NextEnum]_vars

\* the requests of two clients interleave at every await
Next ==
  \/ \E c \in Clients :
       Creates(c, {[title |-> TitleA]}) \/ Updates(c, RaceBodies, RaceBodies) \/ Deletes(c)
  \/ Tick

Spec == Init /\ [][Next]_vars

\* readers, writers and deleters of one task, interleaved at every await;
\* the time of day plays no part in what they find and is left standing
Reads(c) ==
  \/ \E id \in Ids : GetById(c, id)
  \/ List(c, EmptyBody)

NextRace ==
  \/ \E c \in Clients :
       \/ Creates(c, {[title |-> TitleA]})
       \/ Updates(c, {[status |-> "in_progress"]}, {[status |-> "approved"]})
       \/ Deletes(c)
       \/ Reads(c)

SpecRace == Init /\ [][NextRace]_vars

\* two clients updating one stored task, interleaved at every await
LwwBodies ==
  { [status |-> "in_progress", priority |-> "high"], [status |-> "todo", priority |-> "high"],
    [status |-> "approved"], [priority |-> "low"] }

InitLww ==
  /\ tasks = [i \in {1} |-> NewRow(TaskData([title |-> TitleA], "medium", "todo"), 1)]
  /\ nextId = 2
  /\ clock = 1
  /\ reqs = [c \in Clients |-> Idle]
  /\ resp = NoResponse
  /\ env = Unset
  /\ ever = {}

NextLww ==
  \/ \E c \in Clients :
       \/ \E id \in Ids, body \in LwwBodies : PutFind(c, id, body)
       \/ PutUpdate(c)
       \/ PutReload(c)
  \/ Tick

SpecLww == InitLww /\ [][NextLww]_vars

\* the hook on every input: one stored task with any status and any pair of
\* derived timestamps, updated by one request at a time
HookRows ==
  { [NewRow(TaskData([title |-> TitleA], "medium", s), 1)
       EXCEPT !.started_at = sa, !.completed_at = ca] :
    s \in validStatuses, sa \in {NullTime, 1}, ca \in {NullTime, 1} }

InitHook ==
  /\ tasks \in {[i \in {1} |-> row] : row \in HookRows}
  /\ nextId = 2
  /\ clock = 1
  /\ reqs = [c \in Clients |-> Idle]
  /\ resp = NoResponse
  /\ env = Unset
  /\ ever = {i \in DOMAIN tasks : tasks[i].started_at # NullTime}

NextHook == Updates("c1", StatusBodies, StatusBodies) \/ Tick

SpecHook == InitHook /\ [][NextHook]_vars

\* one client updating a stored task while another reads it
NextRead == Updates("c1", StatusBodies, StatusBodies) \/ Reads("c2") \/ Tick

SpecRead == InitHook /\ [][NextRead]_vars

\* the list over stores of up to MaxRows tasks, each as POST / created it
Doc == << 100, 111, 99 >>

ListRows ==
  { NewRow(TaskData(b, b.priority, b.status), 1) : b \in
    { [ title |-> Doc, status |-> "todo", priority |-> "high",
        project_id |-> << 112 >>, assignee |-> << 97, 108 >> ],
      [ title |-> << 97 >>, description |-> << 97, 32, 100, 111, 99 >>,
        status |-> "in_progress", priority |-> "medium" ],
      [ title |-> << 68, 111, 99 >>, tags |-> << 120 >>, status |-> "approved",
        priority |-> "low", project_id |-> << 113 >> ],
      [ title |-> << 97 >>, tags |-> << 100, 120, 99 >>, status |-> "todo",
        priority |-> "high", project_id |-> << 112 >>, assignee |-> << 98 >> ] } }

\* the creation times of tasks 1..n: the clock never runs backwards
CreationTimes(n) ==
  {t \in [1..n -> 1..MaxTime] : \A i, j \in 1..n : i < j => t[i] <= t[j]}

ListStores ==
  UNION { { [i \in 1..n |-> [rows[i] EXCEPT !.created_at = t[i], !.updated_at = t[i]]] :
            rows \in [1..n -> ListRows], t \in CreationTimes(n) } : n \in 0..MaxRows }

One(v) == [one |-> v]

Many(seq) == [many |-> seq]

ListFilters ==
  { EmptyBody,
    [status |-> One("todo")],
    [status |-> Many(<< "in_progress", "todo" >>)],
    [priority |-> One("high")],
    [priority |-> Many(<< "low", "medium" >>)],
    [project_id |-> One(<< 112 >>)],
    [assignee |-> << 97 >>],
    [search |-> Doc],
    [search |-> << 100, 95, 99 >>],
    [status |-> One("todo"), priority |-> One("high"), search |-> Doc],
    [status |-> One("todo"), project_id |-> Many(<< << 112 >>, << 113 >> >>)],
    [status |-> One(""), search |-> << 120 >>] }

ListPagings ==
  { [page |-> pg, limit |-> lm, sortBy |-> sb, sortOrder |-> so] :
      pg \in {<< 49 >>, << 50 >>, << 51 >>, << 52 >>}, lm \in {<< 49 >>, << 50 >>},
      sb \in {"created_at", "id"}, so \in {"ASC", "DESC"} }
  \cup { [page |-> << 50 >>], [limit |-> << 50 >>], [sortBy |-> "due"],
         [status |-> One("todo"), page |-> << 50 >>, limit |-> << 49 >>] }

ListQueries == ListFilters \cup ListPagings

InitList ==
  /\ tasks \in ListStores
  /\ nextId = Len(tasks) + 1
  /\ clock = MaxTime
  /\ reqs = [c \in Clients |-> Idle]
  /\ resp = NoResponse
  /\ env = Unset
  /\ ever = {i \in DOMAIN tasks : tasks[i].status = "in_progress"}

\* one list request against each store: a list changes nothing it reads
NextList == resp = NoResponse /\ \E query \in ListQueries : List("c1", query)

SpecList == InitList /\ [][NextList]_vars

\* the project listings over stores of up to MaxRows tasks, each with or
\* without a project_id and a project_name
ProjectRows ==
  { NewRow(TaskData(b, "medium", "todo"), 1) : b \in
    { [title |-> TitleA, project_id |-> pid, project_name |-> pname] :
        pid \in {Null, << 112 >>, << 113 >>},
        pname \in {Null, << 65, 32, 32, 98 >>, << 99 >>} } }

InitProjects ==
  /\ tasks \in UNION { [1..n -> ProjectRows] : n \in 0..MaxRows }
  /\ nextId = Len(tasks) + 1
  /\ clock = 1
  /\ reqs = [c \in Clients |-> Idle]
  /\ resp = NoResponse
  /\ env = Unset
  /\ ever = {}

\* one request to either listing against each store
NextProjects == resp = NoResponse /\ (GetProjects("c1") \/ GetApiProjects("c1"))

SpecProjects == InitProjects /\ [][NextProjects]_vars

\* requests of one client, any of which may fail in the store, in a process
\* started in any mode
InitErr ==
  /\ tasks = [i \in {} |-> NoRow]
  /\ nextId = 1
  /\ clock = 1
  /\ reqs = [c \in Clients |-> Idle]
  /\ resp = NoResponse
  /\ env \in {Unset, "development", "production"}
  /\ ever = {}

NextErr ==
  \/ Creates("c1", {[title |-> TitleA]})
  \/ Updates("c1", {[status |-> "in_progress"]}, {[status |-> "approved"]})
  \/ Deletes("c1")
  \/ \E id \in Ids : GetById("c1", id)
  \/ \E query \in {EmptyBody, [sortBy |-> "due"]} : List("c1", query)
  \/ \E kind \in StoreHandlers : StoreFails("c1", kind)
  \/ WriteFails("c1")
  \/ BodyParseFails("c1")
  \/ Tick

SpecErr == InitErr /\ [][NextErr]_vars

\* requests whose bodies give started_at and completed_at, one at a time
\* a time no clock shows, given by the caller
GivenTime == 9

GivenCreateBodies ==
  { [title |-> TitleA],
    [title |-> TitleA, started_at |-> GivenTime, completed_at |-> GivenTime],
    [title |-> TitleA, status |-> "in_progress", started_at |-> GivenTime],
    [title |-> TitleA, status |-> "approved", completed_at |-> GivenTime] }

GivenPutBodies ==
  { [started_at |-> GivenTime], [completed_at |-> GivenTime],
    [priority |-> "high", started_at |-> GivenTime, completed_at |-> GivenTime] }
  \cup { [status |-> st, started_at |-> GivenTime, completed_at |-> GivenTime] :
           st \in {"todo", "in_progress", "approved"} }

GivenPatchBodies ==
  { [status |-> "in_progress", started_at |-> GivenTime],
    [status |-> "cancelled", completed_at |-> GivenTime] }

NextGiven ==
  \/ Creates("c1", GivenCreateBodies)
  \/ Updates("c1", GivenPutBodies, GivenPatchBodies)
  \/ Deletes("c1")
  \/ Tick

SpecGiven == Init /\ [][NextGiven]_vars

\* one client creating, moving, reading and listing a task as time passes
DurationBodies == { [status |-> "in_progress"], [status |-> "approved"] }

NextDuration ==
  \/ Creates("c1", {[title |-> TitleA]})
  \/ Updates("c1", DurationBodies, DurationBodies)
  \/ Reads("c1")
  \/ Tick

SpecDuration == Init /\ [][NextDuration]_vars

\* two stored tasks and one client updating either of them
FrameIds == {1, 2}

FramePutBodies ==
  { [title |-> TitleB, priority |-> "high"], [status |-> "in_progress"],
    [status |-> "approved", assignee |-> << 122 >>], EmptyBody }

FramePatchBodies == { [status |-> "in_progress"], [status |-> "todo"] }

InitFrame ==
  /\ tasks = [i \in FrameIds |-> NewRow(TaskData([title |-> TitleA], "medium", "todo"), 1)]
  /\ nextId = 3
  /\ clock = 1
  /\ reqs = [c \in Clients |-> Idle]
  /\ resp = NoResponse
  /\ env = Unset
  /\ ever = {}

NextFrame ==
  \/ \E id \in FrameIds, body \in FramePutBodies : PutFind("c1", id, body)
  \/ PutUpdate("c1")
  \/ PutReload("c1")
  \/ \E id \in FrameIds, body \in FramePatchBodies : PatchFind("c1", id, body)
  \/ PatchUpdate("c1")
  \/ PatchReload("c1")
  \/ Tick

SpecFrame == InitFrame /\ [][NextFrame]_vars

\* one client asking for the statistics while another creates, moves and
\* deletes tasks
StatsCreateBodies ==
  { [title |-> TitleA], [title |-> TitleA, status |-> "approved", priority |-> "high"] }

StatsPatchBodies == { [status |-> "in_progress"], [status |-> "approved"] }

NextStats ==
  \/ StatsStart("c1")
  \/ StatsCount("c1")
  \/ Creates("c2", StatsCreateBodies)
  \/ \E id \in Ids, body \in StatsPatchBodies : PatchFind("c2", id, body)
  \/ PatchUpdate("c2")
  \/ PatchReload("c2")
  \/ Deletes("c2")

SpecStats == Init /\ [][NextStats]_vars

\* ==================================================================== claims

\* C1: every stored task has completed_at non-null iff its status is approved,
\* in every state reached by create, update, patch-status and delete requests
\* handled one after the other.
C1_CompletedIffApproved ==
  \A id \in DOMAIN tasks :
    (tasks[id].completed_at # NullTime) <=> (tasks[id].status = "approved")

\* the derived timestamps of a write, rule by rule
C2_Reference(prev, next, started, completed, now) ==
  [ started_at |->
      IF next = "in_progress" /\ prev # "in_progress" /\ started = NullTime THEN now
      ELSE IF prev = "in_progress" /\ next = "todo" THEN NullTime
      ELSE started,
    completed_at |->
      IF next = "approved" /\ prev # "approved" THEN now
      ELSE IF prev = "approved" /\ next # "approved" THEN NullTime
      ELSE completed ]

\* C2: for every previous status, next status and existing started_at and
\* completed_at, the write of an update stores the derived timestamps the
\* reference rules give: started_at is now on a first entry into in_progress,
\* null on in_progress -> todo, else unchanged; completed_at is now on entry
\* into approved, null on leaving approved, else unchanged.
C2_HookIsReference ==
  [][\A c \in Clients :
       (reqs[c].pc = "found" /\ reqs'[c].pc = "written") =>
         LET r == reqs[c]
             next == IF Has(r.body, "status") THEN r.body.status ELSE r.inst.status
             e == C2_Reference(r.inst.status, next, r.inst.started_at,
                               r.inst.completed_at, clock)
         IN /\ tasks'[r.id].started_at = e.started_at
            /\ tasks'[r.id].completed_at = e.completed_at]_vars

\* todo -> approved: completed_at stamped, started_at still null
C2_Witness ==
  \E c \in Clients :
    /\ reqs[c].pc = "written"
    /\ reqs[c].wrote
    /\ reqs[c].usedPrev = "todo"
    /\ reqs[c].body.status = "approved"
    /\ tasks[reqs[c].id].completed_at = clock
    /\ tasks[reqs[c].id].started_at = NullTime

\* C3: the previous status the hook uses for a status write of PUT or PATCH is
\* the status the row holds immediately before that write, in every
\* interleaving of concurrent requests.
C3_PreviousStatusIsStored ==
  \A c \in Clients :
    (reqs[c].pc = "written" /\ reqs[c].wrote) => reqs[c].usedPrev = reqs[c].storedPrev

\* C4: a task's started_at is non-null only if its status has been
\* in_progress at some point of its history.
C4_StartedOnlyIfEverInProgress ==
  \A id \in DOMAIN tasks : tasks[id].started_at # NullTime => id \in ever

\* a task that has left in_progress and still carries its started_at
C4_Witness ==
  \E id \in DOMAIN tasks :
    /\ tasks[id].started_at # NullTime
    /\ tasks[id].status = "approved"
    /\ id \in ever

C6_CreateDefaults ==
  (resp.kind = "create" /\ resp.code = 201) =>
    /\ resp.id \in DOMAIN tasks
    /\ LET row == tasks[resp.id]
       IN /\ row.status = (IF Has(resp.body, "status") THEN resp.body.status ELSE "todo")
          /\ row.priority = (IF Has(resp.body, "priority") THEN resp.body.priority ELSE "medium")
          /\ row.started_at = NullTime
          /\ row.completed_at = NullTime
          /\ resp.data = row

\* a task created with status approved and no priority
C6_Witness ==
  /\ resp.kind = "create" /\ resp.code = 201
  /\ Has(resp.body, "status") /\ resp.body.status = "approved"
  /\ ~Has(resp.body, "priority")
  /\ resp.id \in DOMAIN tasks
  /\ tasks[resp.id].priority = "medium"
  /\ tasks[resp.id].completed_at = NullTime

\* the write of the update of request c, a kind request for task id
C7_UpdateBy(c, kind, id) ==
  /\ reqs[c].pc = "found" /\ reqs'[c].pc = "written"
  /\ reqs[c].kind = kind /\ reqs[c].id = id

\* C7: from a task created without a status, PATCH in_progress gives started_at
\* set and completed_at null; then PUT approved gives completed_at set and
\* started_at unchanged; then PUT to a status other than approved gives
\* completed_at null and started_at unchanged; each response shows the row.
C7_LifecycleScenario ==
  /\ []((resp.kind \in {"put", "patch"} /\ resp.code = 200) =>
          /\ resp.data.status = tasks[resp.id].status
          /\ resp.data.started_at = tasks[resp.id].started_at
          /\ resp.data.completed_at = tasks[resp.id].completed_at)
  /\ [][\A c \in Clients, id \in DOMAIN tasks :
          LET o == tasks[id]
              n == tasks'[id]
              to == reqs[c].body.status
          IN /\ ( /\ C7_UpdateBy(c, "patch", id) /\ to = "in_progress"
                  /\ o.status = "todo" /\ o.started_at = NullTime
                  /\ o.completed_at = NullTime )
                  => /\ n.status = "in_progress"
                     /\ n.started_at # NullTime
                     /\ n.completed_at = NullTime
             /\ ( /\ C7_UpdateBy(c, "put", id) /\ Has(reqs[c].body, "status")
                  /\ to = "approved"
                  /\ o.status = "in_progress" /\ o.started_at # NullTime
                  /\ o.completed_at = NullTime )
                  => /\ n.status = "approved"
                     /\ n.completed_at # NullTime
                     /\ n.started_at = o.started_at
             /\ ( /\ C7_UpdateBy(c, "put", id) /\ Has(reqs[c].body, "status")
                  /\ to # "approved"
                  /\ o.status = "approved" /\ o.started_at # NullTime
                  /\ o.completed_at # NullTime )
                  => /\ n.status = to
                     /\ n.completed_at = NullTime
                     /\ n.started_at = o.started_at]_vars

\* the end of the scenario: the PUT to rejected_revision has answered
C7_Witness ==
  /\ resp.kind = "put" /\ resp.code = 200
  /\ Has(resp.body, "status") /\ resp.body.status = "rejected_revision"
  /\ resp.data.completed_at = NullTime
  /\ resp.data.started_at # NullTime
  /\ resp.data.started_at < resp.data.updated_at

\* the number a query string of digits stands for
C8_Number(digits) ==
  CASE digits = << 49 >> -> 1
    [] digits = << 50 >> -> 2
    [] digits = << 51 >> -> 3
    [] digits = << 52 >> -> 4
    [] digits = << 49, 48 >> -> 10

C8_Page(query) == IF Has(query, "page") THEN C8_Number(query.page) ELSE 1

C8_Limit(query) == IF Has(query, "limit") THEN C8_Number(query.limit) ELSE 10

C8_Matching(query) == {i \in DOMAIN tasks : Where(query, tasks[i])}

\* C8: for page >= 1 and limit >= 1 over N matching rows the envelope has
\* total = N, totalPages = ceil(N / limit), hasNext = (page < totalPages),
\* hasPrev = (page > 1); a page beyond totalPages has no data and no next page.
C8_Pagination ==
  (resp.kind = "list" /\ resp.code = 200) =>
    LET pg == resp.data.pagination
        page == C8_Page(resp.body)
        limit == C8_Limit(resp.body)
        N == Cardinality(C8_Matching(resp.body))
    IN /\ pg.total = N
       /\ pg.totalPages * limit >= N
       /\ (pg.totalPages - 1) * limit < N
       /\ pg.totalPages >= 0
       /\ pg.hasNext = (page < pg.totalPages)
       /\ pg.hasPrev = (page > 1)
       /\ page > pg.totalPages => (resp.data.data = << >> /\ ~pg.hasNext)

\* page 3 of a result of two pages
C8_Witness ==
  /\ resp.kind = "list" /\ resp.code = 200
  /\ resp.data.pagination.totalPages = 2
  /\ resp.data.pagination.page = 3
  /\ resp.data.pagination.total = 3
  /\ resp.data.data = << >>

C9_Digits(n) == IF n < 10 THEN << 48 + n >> ELSE << 48 + (n \div 10), 48 + (n % 10) >>

C9_PageOf(query, p) ==
  ListResult(tasks, [k \in DOMAIN query \cup {"page"} |->
                       IF k = "page" THEN C9_Digits(p) ELSE query[k]]).data

\* C9: the data of page p with limit L are the rows at positions (p-1)*L ..
\* (p-1)*L+L-1 of the filtered, sorted result, and pages 1..totalPages hold
\* every matching row exactly once.
C9_PagesPartitionResult ==
  (resp.kind = "list" /\ resp.code = 200) =>
    LET q == resp.body
        p == C8_Page(q)
        L == C8_Limit(q)
        sorted == OrderBy(tasks, C8_Matching(q),
                          IF Has(q, "sortBy") THEN q.sortBy ELSE "created_at",
                          IF Has(q, "sortOrder") THEN q.sortOrder ELSE "DESC")
        data == resp.data.data
    IN /\ Len(data) <= L
       /\ \A k \in 1..L :
            IF (p - 1) * L + k <= Len(sorted)
            THEN k <= Len(data) /\ data[k].id = sorted[(p - 1) * L + k]
                 /\ data[k].row = tasks[data[k].id]
            ELSE k > Len(data)
       /\ \A i \in C8_Matching(q) :
            Cardinality({ pk \in (1..resp.data.pagination.totalPages) \X (1..L) :
                          /\ pk[2] <= Len(C9_PageOf(q, pk[1]))
                          /\ C9_PageOf(q, pk[1])[pk[2]].id = i }) = 1

\* the second page, one row per page, of three matching rows in ascending order
C9_Witness ==
  /\ resp.kind = "list" /\ resp.code = 200
  /\ resp.data.pagination.total = 3
  /\ resp.data.pagination.page = 2
  /\ resp.data.pagination.limit = 1
  /\ Has(resp.body, "sortOrder") /\ resp.body.sortOrder = "ASC"
  /\ Len(resp.data.data) = 1
  /\ resp.data.data[1].id = 2

\* the search string occurs in the text, character for character
C10_Contains(text, sub) ==
  /\ text # Null
  /\ \E i \in 0..(Len(text) - Len(sub)) : SubSeq(text, i + 1, i + Len(sub)) = sub

\* the rows a query selects, as the claim reads the filters
C10_Selected(query) ==
  { i \in DOMAIN tasks :
      /\ Given(query, "status") => tasks[i].status \in Range(AsArray(query.status))
      /\ Given(query, "priority") => tasks[i].priority \in Range(AsArray(query.priority))
      /\ Given(query, "project_id") =>
           tasks[i].project_id \in Range(AsArray(query.project_id))
      /\ Has(query, "assignee") => LikeContains(tasks[i].assignee, query.assignee)
      /\ Has(query, "search") =>
           \/ C10_Contains(tasks[i].title, query.search)
           \/ C10_Contains(tasks[i].description, query.search)
           \/ C10_Contains(tasks[i].tags, query.search) }

\* C10: the list returns and counts exactly the rows whose status, priority and
\* project_id are in the given sets and whose title, description or tags
\* contain the search string; filters combine conjunctively and an absent
\* filter restricts nothing.
C10_FiltersSelectRows ==
  (resp.kind = "list" /\ resp.code = 200) =>
    /\ resp.data.pagination.total = Cardinality(C10_Selected(resp.body))
    /\ \A k \in DOMAIN resp.data.data : resp.data.data[k].id \in C10_Selected(resp.body)

\* C11: a get by id that follows an accepted create returns every field the
\* create payload gave (title, description, priority, status, assignee,
\* due_date, tags, estimated_hours, actual_hours, project_id, project_name)
\* with the value given.
C11_RoundTrip ==
  [][( /\ resp.kind = "create" /\ resp.code = 201
       /\ resp'.kind = "get" /\ resp'.code = 200 /\ resp'.id = resp.id )
       => \A k \in DOMAIN resp.body \cap UpdatableFields :
            resp'.data[k] = resp.body[k]]_vars

\* C12: in every state reached by create and update requests, accepted or
\* rejected, every stored task's title is non-empty and at most 100
\* characters long.
C12_TitleBounds ==
  \A id \in DOMAIN tasks :
    Len(tasks[id].title) >= 1 /\ Len(tasks[id].title) <= MaxTitleLen

\* an update to a title of blanks around one letter was accepted, later than
\* the creation, and the title is stored trimmed
C12_Witness ==
  /\ resp.kind = "put" /\ resp.code = 200
  /\ Has(resp.body, "title") /\ resp.body.title = TitleB
  /\ resp.id \in DOMAIN tasks
  /\ tasks[resp.id].title = << 98 >>
  /\ tasks[resp.id].created_at < tasks[resp.id].updated_at

\* the body carries a priority or a status outside its enumeration
C13_Invalid(body) ==
  \/ Has(body, "priority") /\ body.priority \notin validPriorities
  \/ Has(body, "status") /\ body.status \notin validStatuses

C13_Enums ==
  \A id \in DOMAIN tasks :
    tasks[id].priority \in validPriorities /\ tasks[id].status \in validStatuses

\* the response answers a create, update or patch-status request that carried
\* a value outside the enumerations
C13_Rejecting(r) == r.kind \in {"create", "put", "patch"} /\ C13_Invalid(r.body)

\* C13 as stated: every stored priority and status is one of the enumerated
\* values, and a create, update or patch-status request carrying a value
\* outside them is answered 400 and nothing is written.
C13_InvalidEnumIs400 ==
  /\ [](C13_Enums /\ (C13_Rejecting(resp) => resp.code = 400))
  /\ [][(resp' # resp /\ C13_Rejecting(resp')) => tasks' = tasks]_vars

\* C13: every stored priority and status is one of the enumerated values; a
\* create or patch-status request carrying a value outside them is answered
\* 400, an update carrying one is answered 400 when its id resolves to a row
\* and 404 when it does not, and nothing is written.
C13_InvalidEnumRejected ==
  /\ [](C13_Enums
         /\ (C13_Rejecting(resp) =>
               resp.code = (IF resp.kind = "put" /\ resp.id \notin DOMAIN tasks
                            THEN 404 ELSE 400)))
  /\ [][(resp' # resp /\ C13_Rejecting(resp')) => tasks' = tasks]_vars

\* an update with a priority outside the enumeration, sent for an id that has
\* no row
C13_Witness ==
  /\ resp.kind = "put" /\ resp.code = 404
  /\ Has(resp.body, "priority") /\ resp.body.priority = "urgent"
  /\ resp.id \notin DOMAIN tasks

\* C14: a get-by-id, update, patch-status (with a valid status) or delete
\* request whose lookup finds no row for its id is answered 404, never 500,
\* in every interleaving; so is the delete of an id that was never created
\* or was already deleted.
C14_AbsentIdIs404 ==
  [][\A c \in Clients :
       ( /\ reqs[c].pc = "idle"
         /\ resp' # resp /\ resp'.client = c
         /\ resp'.kind \in {"get", "put", "patch", "delete"}
         /\ resp'.kind = "patch" =>
              (Has(resp'.body, "status") /\ resp'.body.status \in validStatuses)
         /\ resp'.id \notin DOMAIN tasks )
         => resp'.code = 404]_vars

\* the delete of an id whose task was deleted before is answered 404
C14_Witness ==
  /\ resp.kind = "delete" /\ resp.code = 404
  /\ resp.id < nextId
  /\ resp.id \notin DOMAIN tasks

\* C15: a deleted task stays deleted: once the delete of a task has answered
\* 200 the task has no row in any later state, also when an update or
\* patch-status that looked it up before the delete writes afterwards, and
\* no later get or list returns it.
C15_DeletedStaysDeleted ==
  /\ []((resp.kind = "delete" /\ resp.code = 200) => resp.id \notin DOMAIN tasks)
  /\ [][ /\ \A id \in 1..(nextId - 1) : id \notin DOMAIN tasks => id \notin DOMAIN tasks'
         /\ (resp' # resp /\ resp'.kind = "get" /\ resp'.code = 200)
              => resp'.id \in DOMAIN tasks
         /\ (resp' # resp /\ resp'.kind = "list" /\ resp'.code = 200)
              => \A k \in DOMAIN resp'.data.data : resp'.data.data[k].id \in DOMAIN tasks
       ]_vars

\* an update that found the task has made its write after the task was deleted
C15_Witness ==
  \E c \in Clients :
    /\ reqs[c].kind = "put" /\ reqs[c].pc = "written"
    /\ reqs[c].id \notin DOMAIN tasks
    /\ resp.kind = "delete" /\ resp.code = 200 /\ resp.id = reqs[c].id

\* the step in which the update of client c sends its UPDATE statement
C16_Write(c) == reqs[c].pc = "found" /\ reqs'[c].pc = "written" /\ reqs'[c].wrote

\* C16: of two concurrent updates of one task, the one whose store write
\* happens last wins: every store write leaves each field its request
\* supplied at the supplied value, the row changes with no other step, and
\* no update of a stored task with a valid body is refused.
C16_LastWriterWins ==
  /\ []((resp.kind = "put" /\ resp.id \in DOMAIN tasks) => resp.code = 200)
  /\ [][ /\ \A c \in Clients :
              C16_Write(c) =>
                \A k \in DOMAIN reqs[c].body \cap UpdatableFields :
                  tasks'[reqs[c].id][k] = UpdateData(reqs[c].body)[k]
         /\ tasks' # tasks => \E c \in Clients : C16_Write(c)
       ]_vars

\* both updates have written, the one to todo last, over the other's in_progress
C16_Witness ==
  /\ \A c \in Clients : reqs[c].pc = "written" /\ reqs[c].wrote /\ reqs[c].id = 1
  /\ reqs["c1"].body = [status |-> "in_progress", priority |-> "high"]
  /\ reqs["c2"].body = [status |-> "todo", priority |-> "high"]
  /\ reqs["c2"].storedPrev = "in_progress"
  /\ tasks[1].status = "todo"

\* C17: status, started_at and completed_at of a row change in one store
\* step: every step takes a row to its new status together with the derived
\* timestamps the rules give for that change, and a concurrent get or list
\* returns each row as it is stored, so it shows the row before the write or
\* the row after it, never the new status with the old derived timestamps.
C17_AtomicRowVisibility ==
  [][ /\ \A id \in DOMAIN tasks \cap DOMAIN tasks' :
           LET o == tasks[id]
               n == tasks'[id]
               e == C2_Reference(o.status, n.status, o.started_at, o.completed_at, clock)
           IN n.started_at = e.started_at /\ n.completed_at = e.completed_at
      /\ (resp' # resp /\ resp'.kind = "get" /\ resp'.code = 200)
           => resp'.data = tasks[resp'.id]
      /\ (resp' # resp /\ resp'.kind = "list" /\ resp'.code = 200)
           => \A k \in DOMAIN resp'.data.data :
                resp'.data.data[k].row = tasks[resp'.data.data[k].id]
    ]_vars

\* a get answered between the write and the response of an update to
\* approved shows the new status with its completed_at
C17_Witness ==
  /\ reqs["c1"].pc = "written" /\ reqs["c1"].wrote
  /\ reqs["c1"].body.status = "approved" /\ reqs["c1"].usedPrev = "in_progress"
  /\ resp.client = "c2" /\ resp.kind = "get" /\ resp.code = 200
  /\ resp.data.status = "approved"
  /\ resp.data.completed_at = resp.data.updated_at

\* the slug of a name: runs of blanks become one underscore, letters lower case
RECURSIVE C18_Slug(_)
C18_Slug(name) ==
  IF name = << >> THEN << >>
  ELSE IF Head(name) = 32
    THEN IF Len(name) > 1 /\ name[2] = 32 THEN C18_Slug(Tail(name))
         ELSE << 95 >> \o C18_Slug(Tail(name))
  ELSE << (IF Head(name) \in 65..90 THEN Head(name) + 32 ELSE Head(name)) >>
         \o C18_Slug(Tail(name))

\* C18: both project listings return at most one {id, name} entry per
\* project_name, an entry for every project_name some task carries, and for
\* a name whose tasks have no project_id an id made of auto_ and the slug of
\* the name.
C18_ProjectsByName ==
  (resp.kind \in {"projects", "api_projects"} /\ resp.code = 200) =>
    LET data == resp.data
        names == { tasks[i].project_name : i \in DOMAIN tasks } \ {Null}
    IN /\ \A j, k \in DOMAIN data : data[j].name = data[k].name => j = k
       /\ \A name \in names : \E k \in DOMAIN data : data[k].name = name
       /\ \A k \in DOMAIN data :
            (\A i \in DOMAIN tasks :
               tasks[i].project_name = data[k].name => tasks[i].project_id = Null)
            => data[k].id = << 97, 117, 116, 111, 95 >> \o C18_Slug(data[k].name)

\* C18 for GET /api/projects alone
C18_ApiProjectsByName ==
  resp.kind = "projects" \/ C18_ProjectsByName

\* C19: a 500 response carries the underlying error message only in a process
\* in development mode; in any other mode the message is redacted, for every
\* handler and for the error middleware.
C19_MessageOnlyInDevelopment ==
  resp.code = 500 =>
    resp.data.error = (IF env = "development" THEN "error.message" ELSE "redacted")

\* C19 for the error middleware alone
C19_MiddlewareRedacts ==
  resp.kind = "middleware" => C19_MessageOnlyInDevelopment

\* C20: started_at and completed_at are never taken from the caller: no
\* stored task holds a value a request body gave for them, a created task
\* has both null, and a step changes them only together with the status,
\* to the time of the change or to null.
C20_DerivedNeverFromCaller ==
  /\ [](\A id \in DOMAIN tasks :
          tasks[id].started_at # GivenTime /\ tasks[id].completed_at # GivenTime)
  /\ [][\A id \in DOMAIN tasks' :
          IF id \in DOMAIN tasks
          THEN LET o == tasks[id]
                   n == tasks'[id]
               IN /\ n.started_at \in {o.started_at, clock, NullTime}
                  /\ n.completed_at \in {o.completed_at, clock, NullTime}
                  /\ n.status = o.status =>
                       (n.started_at = o.started_at /\ n.completed_at = o.completed_at)
          ELSE tasks'[id].started_at = NullTime /\ tasks'[id].completed_at = NullTime
       ]_vars

\* an update to in_progress that gave its own started_at was answered, and
\* the task holds the time of the change
C20_Witness ==
  /\ resp.kind = "put" /\ resp.code = 200
  /\ Has(resp.body, "started_at") /\ resp.body.started_at = GivenTime
  /\ Has(resp.body, "status") /\ resp.body.status = "in_progress"
  /\ tasks[resp.id].started_at = tasks[resp.id].updated_at
  /\ tasks[resp.id].completed_at = NullTime

\* the duration the specification describes, in hundredths of a day
C21_Days(task) ==
  IF task.started_at # NullTime /\ task.completed_at # NullTime
  THEN Round((task.completed_at - task.started_at) * TickHours * 100, DayHours)
  ELSE NullNum

\* C21: every task returned by list, get and update carries a duration that is
\* null unless both started_at and completed_at are set, and otherwise is
\* completed_at - started_at in days, rounded to 2 decimal places
C21_DurationInDays ==
  /\ (resp.code = 200 /\ resp.kind \in {"get", "put"})
       => resp.durations = << C21_Days(resp.data) >>
  /\ (resp.code = 200 /\ resp.kind = "list")
       => /\ DOMAIN resp.durations = DOMAIN resp.data.data
          /\ \A k \in DOMAIN resp.data.data :
               resp.durations[k] = C21_Days(resp.data.data[k].row)

\* the title of the body is missing, null, or after trimming empty or longer
\* than 100 characters
C22_TrimmedInvalid(body) ==
  \/ ~Has(body, "title")
  \/ ~Truthy(body.title)
  \/ Len(Trim(body.title)) = 0
  \/ Len(Trim(body.title)) > MaxTitleLen

\* C22: a create, or an update that carries a title, is rejected with 400
\* exactly when the title after trimming is empty or longer than 100
\* characters; a title whose trimmed length is between 1 and 100 is accepted
\* and stored trimmed
C22_ValidatesTrimmedTitle ==
  ( /\ resp.kind \in {"create", "put"}
    /\ resp.code \in {200, 201, 400}
    /\ resp.kind = "put" => Has(resp.body, "title") )
  => /\ resp.code = 400 <=> C22_TrimmedInvalid(resp.body)
     /\ resp.code # 400 =>
          /\ resp.id \in DOMAIN tasks
          /\ tasks[resp.id].title = Trim(resp.body.title)

\* C23: the step in which a create, update, patch-status or delete request is
\* answered with 400 or 404 leaves the store as it was: no task is created or
\* removed and no field of any task changes
C23_RejectedLeavesStore ==
  [][( /\ resp' # resp
       /\ resp'.kind \in {"create", "put", "patch", "delete"}
       /\ resp'.code \in {400, 404} )
       => (tasks' = tasks /\ nextId' = nextId)]_vars

\* an update of a stored task was rejected with 400, later than the task's
\* last write, and the task is as it was
C23_Witness ==
  /\ resp.kind = "put" /\ resp.code = 400
  /\ resp.id \in DOMAIN tasks
  /\ tasks[resp.id].updated_at < clock

\* the columns a successful update of the request r may change
C24_Allowed(r) ==
  IF r.kind = "put"
  THEN DOMAIN r.body \cup {"started_at", "completed_at", "updated_at"}
  ELSE {"status", "started_at", "completed_at", "updated_at"}

C25_BadStatus(body) ==
  ~Has(body, "status") \/ body.status = "" \/ body.status \notin validStatuses

\* C25: a patch-status with a missing or invalid status is answered 400
\* whether or not the id has a task, and an update of an id that has no task
\* is answered 404 whether or not the body is valid
C25_OrderOfChecks ==
  [][resp' # resp =>
       /\ (resp'.kind = "patch" /\ C25_BadStatus(resp'.body)) => resp'.code = 400
       /\ (resp'.kind = "put" /\ resp'.id \notin DOMAIN tasks) => resp'.code = 404]_vars

\* an update with an invalid body, of an id whose task was deleted, was
\* answered 404
C25_Witness ==
  /\ resp.kind = "put" /\ resp.code = 404
  /\ PutInvalid(resp.body)
  /\ resp.id \notin DOMAIN tasks
  /\ resp.id < nextId

\* C26: with requests handled one at a time, a stored task that has both
\* started_at and completed_at has started_at <= completed_at, so the time
\* between them is never negative
C26_StartedBeforeCompleted ==
  \A id \in DOMAIN tasks :
    (tasks[id].started_at # NullTime /\ tasks[id].completed_at # NullTime)
      => tasks[id].started_at <= tasks[id].completed_at

\* a task started at one time and completed at a later one
C26_Witness ==
  \E id \in DOMAIN tasks :
    /\ tasks[id].started_at # NullTime
    /\ tasks[id].started_at < tasks[id].completed_at
    /\ tasks[id].status = "approved"

RECURSIVE C27_Sum(_, _)
\* the sum of the counts f gives to the keys in S
C27_Sum(f, S) ==
  IF S = {} THEN 0
  ELSE LET x == CHOOSE y \in S : TRUE IN f[x] + C27_Sum(f, S \ {x})

\* C27: every statistics response is consistent in itself, also when other
\* requests write while it is computed: the per-status counts sum to total,
\* the per-priority counts sum to total, completed is the approved count,
\* inProgress is the in_progress count, and completionRate is
\* round(100 * completed / total), 0 when total is 0
C27_StatsConsistent ==
  (resp.kind = "stats" /\ resp.code = 200) =>
    LET d == resp.data
    IN /\ C27_Sum(d.statusStats, DOMAIN d.statusStats) = d.total
       /\ C27_Sum(d.priorityStats, DOMAIN d.priorityStats) = d.total
       /\ d.completed = d.statusStats["approved"]
       /\ d.inProgress = d.statusStats["in_progress"]
       /\ d.completionRate = (IF d.total = 0 THEN 0 ELSE Round(100 * d.completed, d.total))

====
